---- MODULE Spec2Model ----
(***************************************************************************)
(* The live agent-event viewers of src/cli: the WebSocket append-log       *)
(* viewer (AgentEventStream), the WebSocket dashboard (CursesAgentStream)  *)
(* and the HTTP polling viewer (SimpleAgentStream).  One run of the        *)
(* program starts one of the three; `mode` says which.                     *)
(***************************************************************************)
EXTENDS Integers, Sequences, FiniteSets, TLC

(***************************************************************************)
(* Bounds of the model.                                                    *)
(***************************************************************************)
\* events the server produces in one run of the append-log viewer, which also
\* receives them again in backfills
MaxProduced == 2
\* events the server produces in one run of the dashboard
MaxLive == 3
\* events the server produces in one run of the polling viewer
MaxPolled == 3
\* fetches of the polling viewer in one run
MaxPolls == 3
\* events the server produces in one run under FairSpec
FairProduced == 2
\* events the server produces in one run under ScenarioSpec
ScenarioLen == 3
\* events the server produces in one run under FilterSpec
FilterProduced == 1
\* the capacity the hand-off queue is held against (the design's is in the low hundreds)
QueueCapacity == 2
\* init (backfill) frames the server sends in one run
MaxBackfills == 2
\* the window of AgentEventStream.events (the code keeps 1000), scaled down
LogWindow == 2
\* the window of CursesAgentStream.events (the code keeps 500), scaled down
DashWindow == 2
\* rows of the terminal in dashboard mode (stdscr.getmaxyx)
TermHeight == 7
\* columns of the terminal
TermWidth == 80
\* the tallest and the widest terminal under PaneSpec and LineSpec
MaxHeight == 9
MaxWidth == 56
\* the longest source name, category name and summary under LineSpec
MaxApp == 2
MaxType == 2
MaxSummary == 50
\* the size of SimpleAgentStream's seen_ids (the code keeps 100), scaled down
SeenLimit == 2
\* the polling server's page size (the code asks for limit=10), scaled down
PollLimit == 2

(***************************************************************************)
(* Python values.                                                          *)
(***************************************************************************)
\* a key that is missing from a dict
Absent == "<absent>"
\* Python's None (an unset filter, JSON null)
None == "None"
\* a payload that is JSON null, a list or a number: it has no .get
NotAMapping == "<not-a-mapping>"
\* a payload that is a mapping without the key agent_type
EmptyMapping == "{}"

Apps == {"A", "B", "a"}
EventTypes == {"tool_use", "error", "total", "Tool_use"}
AgentTypes == {"openai", "unknown"}
StatKeys == EventTypes \cup {"total", "unknown"}
AppKeys == Apps \cup {"unknown"}

\* The event records the server may send (without their id).  payload is
\* Absent, EmptyMapping, NotAMapping, or the agent_type of a mapping that has
\* one; timestamp is "ok" (an ISO string) or "bad" (missing or unparsable).
EventShapes ==
    { [app |-> "A", event_type |-> "tool_use", payload |-> Absent,      timestamp |-> "ok"],
      [app |-> "B", event_type |-> "error",    payload |-> Absent,      timestamp |-> "ok"],
      [app |-> "A", event_type |-> "total",    payload |-> "openai",    timestamp |-> "ok"],
      [app |-> "B", event_type |-> "tool_use", payload |-> NotAMapping, timestamp |-> "ok"],
      [app |-> Absent, event_type |-> Absent,  payload |-> EmptyMapping, timestamp |-> "bad"] }

\* Event records that differ from one another in the case of a letter only,
\* in the source or in the category.
CaseShapes ==
    { [app |-> "A", event_type |-> "tool_use", payload |-> Absent, timestamp |-> "ok"],
      [app |-> "a", event_type |-> "tool_use", payload |-> Absent, timestamp |-> "ok"],
      [app |-> "A", event_type |-> "Tool_use", payload |-> Absent, timestamp |-> "ok"] }

\* the id the server gives its n-th event
IdOf(n) == ToString(n)

WithId(shape, id) ==
    [app |-> shape.app, event_type |-> shape.event_type, payload |-> shape.payload,
     timestamp |-> shape.timestamp, id |-> id]

\* dict.get(key, default)
Get(d, key, default) == IF d[key] = Absent THEN default ELSE d[key]

\* event.get("payload", {}).get("agent_type", "unknown"); raises AttributeError
\* when the payload is not a mapping
PayloadRaises(event) == event.payload = NotAMapping
AgentTypeOfOpenai(event) == "openai"
AgentTypeOf(event) ==
    IF event.payload \in {Absent, EmptyMapping} THEN "unknown" ELSE event.payload

\* datetime.fromisoformat(event.get("timestamp", "")) raises ValueError
TimestampRaises(event) == event.timestamp # "ok"

Inc(f, k) == [f EXCEPT ![k] = @ + 1]
Inc2(f, k1, k2) == [f EXCEPT ![k1][k2] = @ + 1]

RECURSIVE SumOver(_, _)
SumOver(f, S) ==
    IF S = {} THEN 0
    ELSE LET k == CHOOSE x \in S : TRUE IN f[k] + SumOver(f, S \ {k})

\* seq[-n:] of Python, for n >= 1
LastN(seq, n) ==
    IF Len(seq) <= n THEN seq ELSE SubSeq(seq, Len(seq) - n + 1, Len(seq))

(***************************************************************************)
(* State.                                                                  *)
(***************************************************************************)
VARIABLES
    mode,          \* "log" (AgentEventStream), "curses" (CursesAgentStream), "poll" (SimpleAgentStream)
    args,          \* the command line: [filter_app, filter_type]
    running,       \* self.running
    pause,         \* self.pause
    show_details,  \* self.show_details
    filter_app,    \* self.filter_app
    filter_type,   \* self.filter_type
    events,        \* self.events, the window of recent events
    stats,         \* self.stats: the total under "total" and one count per event type
    agent_stats,   \* self.agent_stats[app][agent_type]
    event_queue,   \* self.event_queue (append-log mode)
    netpc,         \* where connect_and_stream stands
    cur,           \* the event the dashboard's receive loop is handling
    ctlpc,         \* where the controlling code (run_interactive, run, SimpleAgentStream.run) stands
    disppc,        \* where run_display_thread stands
    dispcur,       \* the event run_display_thread took from the queue
    screen,        \* what the last completed draw_ui put on the terminal
    printed,       \* the events printed so far (append-log and polling viewers)
    statsPrinted,  \* whether the final statistics summary was printed
    shapes,        \* the event records the server draws from in this run
    maxProduced,   \* how many events the server produces in this run
    produced,      \* the server's log of events
    initPending,   \* the server has not yet sent a frame on this connection
    backfills,     \* init frames sent so far to the append-log viewer, and fetches answered so far
    offered,       \* history: the events handed to the aggregator so far
    pausedAt,      \* history: how many events had been handed over when pause was last set
    seen_ids,      \* poll_events' seen_ids
    fetchOk,       \* whether the last fetch got an answer
    batch,         \* the events the last fetch returned
    batchidx,      \* the position of poll_events' for loop in batch
    term,          \* the terminal: [height, width], what stdscr.getmaxyx() returns
    line,          \* the event line the renderer built last (LineSpec)
    event_count,   \* UniversalAgentObserver.event_count
    sends,         \* history: the calls of send_event so far, each with what became of it
    wpc,           \* where observe_function's wrapper stands
    call,          \* the call the wrapper is serving: what the function does when run
    result         \* how the wrapper's last call ended for its caller

vars == <<mode, args, running, pause, show_details, filter_app, filter_type, events,
          stats, agent_stats, event_queue, netpc, cur, ctlpc, disppc, dispcur, screen,
          printed, statsPrinted, shapes, maxProduced, produced, initPending,
          backfills, offered, pausedAt, seen_ids, fetchOk, batch, batchidx, term, line,
          event_count, sends, wpc, call, result>>

aggVars == <<events, stats, agent_stats, event_queue, offered>>
serverVars == <<produced, initPending, backfills>>
pollVars == <<seen_ids, fetchOk, batch, batchidx>>
observerVars == <<event_count, sends, wpc, call, result>>
configVars == <<mode, args, filter_app, filter_type, shapes, maxProduced, term, line,
                observerVars>>
uiVars == <<pause, show_details, screen, pausedAt>>
dispVars == <<disppc, dispcur, printed>>
ctlVars == <<running, ctlpc, statsPrinted>>

\* an event that is no event: the value of cur and dispcur while they hold nothing
NoEvent == [app |-> Absent, event_type |-> Absent, payload |-> Absent,
            timestamp |-> Absent, id |-> Absent]

BlankScreen == [total |-> 0, agents |-> 0, paused |-> FALSE, lines |-> <<>>]

\* no line built yet
NoLine == [len |-> 0, full |-> 0, ellipsis |-> FALSE, rows |-> 0]

\* no call of a wrapped function under way, and none ended
NoOutcome == [kind |-> "none", value |-> None]
NoCall == [outcome |-> NoOutcome, base |-> 0, ran |-> FALSE]

\* the terminal of the runs that do not vary it
DefaultTerm == [height |-> TermHeight, width |-> TermWidth]

\* main(): the append-log viewer gets the command line's filters, the dashboard
\* is constructed and run without them
MainFilterApp(m, a) == IF m = "log" THEN a.filter_app ELSE None
MainFilterType(m, a) == IF m = "log" THEN a.filter_type ELSE None

\* __init__ of the three classes, then main()'s wiring
Start ==
    /\ running = TRUE
    /\ pause = FALSE
    /\ show_details = FALSE
    /\ filter_app = MainFilterApp(mode, args)
    /\ filter_type = MainFilterType(mode, args)
    /\ events = <<>>
    /\ stats = [k \in StatKeys |-> 0]
    /\ agent_stats = [a \in AppKeys |-> [t \in AgentTypes |-> 0]]
    /\ event_queue = <<>>
    /\ netpc = "loop"
    /\ cur = NoEvent
    /\ ctlpc = "main"
    /\ disppc = "loop"
    /\ dispcur = NoEvent
    /\ screen = BlankScreen
    /\ printed = <<>>
    /\ statsPrinted = FALSE
    /\ produced = <<>>
    /\ initPending = FALSE
    /\ backfills = 0
    /\ offered = <<>>
    /\ pausedAt = 0
    /\ seen_ids = {}
    /\ fetchOk = TRUE
    /\ batch = <<>>
    /\ batchidx = 0
    /\ line = NoLine
    /\ event_count = 0
    /\ sends = <<>>
    /\ wpc = "idle"
    /\ call = NoCall
    /\ result = NoOutcome

\* every viewer, every command line, the server drawing from every event shape
Init ==
    /\ mode \in {"log", "curses", "poll"}
    /\ args \in [filter_app : {None, "A"}, filter_type : {None, "tool_use"}]
    /\ mode = "curses" => args.filter_type = None
    /\ mode = "poll" => args = [filter_app |-> None, filter_type |-> None]
    /\ shapes = EventShapes
    /\ maxProduced = CASE mode = "log" -> MaxProduced
                        [] mode = "curses" -> MaxLive
                        [] OTHER -> MaxPolled
    /\ Start
    /\ term = DefaultTerm

(***************************************************************************)
(* The server, as the viewers see it: frames on the WebSocket.             *)
(***************************************************************************)
Frame(kind, evs) == [kind |-> kind, events |-> evs]

\* The frames the server may send next on the open connection, each with the
\* server's log after it: text that is not JSON, JSON that is not an object,
\* an object of another type, a live event (which the server logs), and, as
\* the first frame of a connection, the backfill of the events logged so far.
Sendable ==
    { [frame |-> Frame(k, <<>>), log |-> produced] : k \in {"garbage", "nonobject", "other"} }
    \cup
    (IF Len(produced) < maxProduced
     THEN { [frame |-> Frame("event", <<WithId(s, IdOf(Len(produced) + 1))>>),
             log |-> Append(produced, WithId(s, IdOf(Len(produced) + 1)))] : s \in shapes }
     ELSE {})
    \cup
    (IF initPending /\ (mode = "log" => backfills < MaxBackfills)
     THEN { [frame |-> Frame("init", produced), log |-> produced] }
     ELSE {})

ServerAfter(sent) ==
    /\ produced' = sent.log
    /\ initPending' = FALSE
    /\ backfills' = IF sent.frame.kind = "init" /\ mode = "log" THEN backfills + 1
                    ELSE backfills

\* The server logs an event while no viewer is connected to receive it; a
\* later backfill carries it.
ServerProduce ==
    /\ mode = "log"
    /\ ctlpc # "exited"
    /\ netpc \in {"loop", "connecting", "backoff"}
    /\ Len(produced) < maxProduced
    /\ \E s \in shapes : produced' = Append(produced, WithId(s, IdOf(Len(produced) + 1)))
    /\ UNCHANGED <<configVars, ctlVars, uiVars, dispVars, aggVars, netpc, cur,
                   initPending, backfills, pollVars>>

(***************************************************************************)
(* Append-log mode: AgentEventStream.                                      *)
(***************************************************************************)
\* Python's truth value of a filter: None and the empty string are false
Truthy(x) == x \notin {None, ""}

\* str.lower() on the names of the model
Lower(x) == IF x = "A" THEN "a" ELSE IF x = "Tool_use" THEN "tool_use" ELSE x

\* filter tests that compare without regard to case: what the code does not do
FilterRejectsFolded(event) ==
    \/ Truthy(filter_app) /\ Lower(Get(event, "app", None)) # Lower(filter_app)
    \/ Truthy(filter_type) /\ Lower(Get(event, "event_type", None)) # Lower(filter_type)

\* the two filter tests of process_event; event.get(key) is None when absent
FilterRejects(event) ==
    \/ Truthy(filter_app) /\ Get(event, "app", None) # filter_app
    \/ Truthy(filter_type) /\ Get(event, "event_type", None) # filter_type

\* self.events.append(event), then pop(0) when more than 1000 are held
AppendTrim(evs, event, window) ==
    IF Len(evs) + 1 > window THEN Tail(Append(evs, event)) ELSE Append(evs, event)

\* The aggregate state as process_event reads and writes it; raised says that
\* an exception left the call.
Agg == [stats |-> stats, agent_stats |-> agent_stats, event_queue |-> event_queue,
        events |-> events, offered |-> offered, raised |-> FALSE]

\* process_event(event): the pause test, the filters, the counters, the queue,
\* the window.  The payload is read after the first two counters are written.
ProcessEvent(a, event) ==
    LET called == [a EXCEPT !.offered = Append(@, event)]
        counted == Inc(Inc(a.stats, "total"), Get(event, "event_type", "unknown"))
    IN  IF pause \/ FilterRejects(event) THEN called
        ELSE IF PayloadRaises(event)
        THEN [called EXCEPT !.stats = counted, !.raised = TRUE]
        ELSE [called EXCEPT
                !.stats = counted,
                !.agent_stats = Inc2(@, Get(event, "app", "unknown"), AgentTypeOf(event)),
                !.event_queue = Append(@, event),
                !.events = AppendTrim(@, event, LogWindow)]

\* for event in data.get("events", []): self.process_event(event)
RECURSIVE ProcessBatch(_, _)
ProcessBatch(a, evs) ==
    IF evs = <<>> \/ a.raised THEN a
    ELSE ProcessBatch(ProcessEvent(a, Head(evs)), Tail(evs))

\* json.loads(message) and handle_message(data).  Text that is not JSON raises
\* JSONDecodeError, which the loop catches; JSON that is not an object has no
\* .get and raises AttributeError, which leaves the loop.
HandleMessage(a, frame) ==
    CASE frame.kind = "garbage" -> a
      [] frame.kind = "nonobject" -> [a EXCEPT !.raised = TRUE]
      [] frame.kind = "init" -> ProcessBatch(a, frame.events)
      [] frame.kind = "event" -> ProcessBatch(a, frame.events)
      [] OTHER -> a

SetAgg(a) ==
    /\ stats' = a.stats
    /\ agent_stats' = a.agent_stats
    /\ event_queue' = a.event_queue
    /\ events' = a.events
    /\ offered' = a.offered

\* while self.running: ... (connect_and_stream returns when the flag is down)
LogLoopCheck ==
    /\ mode = "log" /\ ctlpc # "exited"
    /\ netpc = "loop"
    /\ netpc' = IF running THEN "connecting" ELSE "closed"
    /\ UNCHANGED <<configVars, ctlVars, uiVars, dispVars, aggVars, cur, serverVars, pollVars>>

\* websockets.connect succeeds
LogConnectOk ==
    /\ mode = "log" /\ ctlpc # "exited"
    /\ netpc = "connecting"
    /\ netpc' = "streaming"
    /\ initPending' = TRUE
    /\ UNCHANGED <<configVars, ctlVars, uiVars, dispVars, aggVars, cur, produced,
                   backfills, pollVars>>

\* A receive loop without the except clauses: the failed attempt ends the loop.
LogConnectFailFatal ==
    /\ mode = "log" /\ ctlpc # "exited"
    /\ netpc = "connecting"
    /\ netpc' = "closed"
    /\ UNCHANGED <<configVars, ctlVars, uiVars, dispVars, aggVars, cur, serverVars, pollVars>>

\* websockets.connect raises (refused, timeout, bad handshake): except Exception, sleep
LogConnectFail ==
    /\ mode = "log" /\ ctlpc # "exited"
    /\ netpc = "connecting"
    /\ netpc' = "backoff"
    /\ UNCHANGED <<configVars, ctlVars, uiVars, dispVars, aggVars, cur, serverVars, pollVars>>

\* One message of `async for message in websocket`: the running test,
\* json.loads, handle_message.  An exception other than JSONDecodeError leaves
\* the async for and the connection: except Exception, sleep.
LogRecvFrame(sent) ==
    /\ mode = "log" /\ ctlpc # "exited"
    /\ netpc = "streaming"
    /\ ServerAfter(sent)
    /\ IF ~running
       THEN \* break: the frame is dropped and the connection closed
            /\ netpc' = "loop"
            /\ UNCHANGED aggVars
       ELSE LET a == HandleMessage(Agg, sent.frame) IN
            /\ SetAgg(a)
            /\ netpc' = IF a.raised THEN "backoff" ELSE "streaming"
    /\ UNCHANGED <<configVars, ctlVars, uiVars, dispVars, cur, pollVars>>

LogRecv == \E sent \in Sendable : LogRecvFrame(sent)

\* the connection breaks: ConnectionClosed is raised in the async for, then sleep
LogConnectionLost ==
    /\ mode = "log" /\ ctlpc # "exited"
    /\ netpc = "streaming"
    /\ netpc' = "backoff"
    /\ UNCHANGED <<configVars, ctlVars, uiVars, dispVars, aggVars, cur, serverVars, pollVars>>

\* the server closes the connection normally: the async for ends without an
\* exception and the while loop goes round
LogServerClose ==
    /\ mode = "log" /\ ctlpc # "exited"
    /\ netpc = "streaming"
    /\ netpc' = "loop"
    /\ UNCHANGED <<configVars, ctlVars, uiVars, dispVars, aggVars, cur, serverVars, pollVars>>

\* asyncio.sleep(2) or asyncio.sleep(5) ends
LogBackoffDone ==
    /\ mode = "log" /\ ctlpc # "exited"
    /\ netpc = "backoff"
    /\ netpc' = "loop"
    /\ UNCHANGED <<configVars, ctlVars, uiVars, dispVars, aggVars, cur, serverVars, pollVars>>

\* format_event(event) raises on a timestamp fromisoformat rejects and on a
\* payload that has no .get
FormatRaises(event) == TimestampRaises(event) \/ PayloadRaises(event)

\* run_display_thread: while self.running, event = self.event_queue.get(timeout=0.1)
DisplayGet ==
    /\ mode = "log" /\ ctlpc # "exited"
    /\ disppc = "loop" /\ running
    /\ event_queue # <<>>
    /\ dispcur' = Head(event_queue)
    /\ event_queue' = Tail(event_queue)
    /\ disppc' = "print"
    /\ UNCHANGED <<configVars, ctlVars, uiVars, printed, events, stats, agent_stats,
                   offered, netpc, cur, serverVars, pollVars>>

\* print(self.format_event(event)); an exception prints "Display error" instead
DisplayPrint ==
    /\ mode = "log" /\ ctlpc # "exited"
    /\ disppc = "print"
    /\ printed' = IF FormatRaises(dispcur) THEN printed ELSE Append(printed, dispcur)
    /\ dispcur' = NoEvent
    /\ disppc' = "loop"
    /\ UNCHANGED <<configVars, ctlVars, uiVars, aggVars, netpc, cur, serverVars, pollVars>>

\* run_display_thread finds self.running false and returns
DisplayExit ==
    /\ mode = "log" /\ ctlpc # "exited"
    /\ disppc = "loop" /\ ~running
    /\ disppc' = "done"
    /\ UNCHANGED <<configVars, ctlVars, uiVars, dispcur, printed, aggVars, netpc, cur,
                   serverVars, pollVars>>

\* run_interactive catches KeyboardInterrupt: self.running = False, then
\* await stream_task
LogInterruptCaught ==
    /\ mode = "log"
    /\ ctlpc = "main"
    /\ running' = FALSE
    /\ ctlpc' = "await_stream"
    /\ UNCHANGED <<configVars, statsPrinted, uiVars, dispVars, aggVars, netpc, cur,
                   serverVars, pollVars>>

\* stream_task has returned: print_stats(), run_interactive returns, the process ends
LogStreamTaskDone ==
    /\ mode = "log"
    /\ ctlpc = "await_stream"
    /\ netpc = "closed"
    /\ statsPrinted' = TRUE
    /\ ctlpc' = "exited"
    /\ UNCHANGED <<configVars, running, uiVars, dispVars, aggVars, netpc, cur,
                   serverVars, pollVars>>

\* KeyboardInterrupt is raised outside run_interactive's try (in the event loop,
\* or a second time during await stream_task): asyncio.run cancels the tasks,
\* main() prints "Stream stopped." and the process ends
LogInterruptUncaught ==
    /\ mode = "log"
    /\ ctlpc \in {"main", "await_stream"}
    /\ ctlpc' = "exited"
    /\ netpc' = "closed"
    /\ UNCHANGED <<configVars, running, statsPrinted, uiVars, dispVars, aggVars, cur,
                   serverVars, pollVars>>

NextLog ==
    \/ LogLoopCheck \/ LogConnectOk \/ LogConnectFail \/ LogRecv
    \/ LogConnectionLost \/ LogServerClose \/ LogBackoffDone
    \/ DisplayGet \/ DisplayPrint \/ DisplayExit
    \/ LogInterruptCaught \/ LogStreamTaskDone \/ LogInterruptUncaught

(***************************************************************************)
(* Dashboard mode: CursesAgentStream.  The receive loop runs in a daemon   *)
(* thread beside the UI loop, so its statements interleave with draw_ui    *)
(* and handle_input.                                                       *)
(***************************************************************************)
\* while self.running: ...
CursesLoopCheck ==
    /\ mode = "curses" /\ ctlpc # "exited"
    /\ netpc = "loop"
    /\ netpc' = IF running THEN "connecting" ELSE "closed"
    /\ UNCHANGED <<configVars, ctlVars, uiVars, dispVars, aggVars, cur, serverVars, pollVars>>

CursesConnectOk ==
    /\ mode = "curses" /\ ctlpc # "exited"
    /\ netpc = "connecting"
    /\ netpc' = "streaming"
    /\ initPending' = TRUE
    /\ UNCHANGED <<configVars, ctlVars, uiVars, dispVars, aggVars, cur, produced,
                   backfills, pollVars>>

\* websockets.connect raises: the bare except, then asyncio.sleep(2)
CursesConnectFail ==
    /\ mode = "curses" /\ ctlpc # "exited"
    /\ netpc = "connecting"
    /\ netpc' = "backoff"
    /\ UNCHANGED <<configVars, ctlVars, uiVars, dispVars, aggVars, cur, serverVars, pollVars>>

\* One message of the async for: the running test, json.loads, the type test.
\* Every exception of the body is swallowed by the inner bare except; only a
\* message of type "event" is handled, an init message is not.
CursesRecvFrame(sent) ==
    /\ mode = "curses" /\ ctlpc # "exited"
    /\ netpc = "streaming"
    /\ ServerAfter(sent)
    /\ IF ~running
       THEN /\ netpc' = "loop"
            /\ UNCHANGED <<cur, offered>>
       ELSE IF sent.frame.kind = "event"
       THEN /\ cur' = sent.frame.events[1]
            /\ offered' = Append(offered, sent.frame.events[1])
            /\ netpc' = "append"
       ELSE /\ netpc' = "streaming"
            /\ UNCHANGED <<cur, offered>>
    /\ UNCHANGED <<configVars, ctlVars, uiVars, dispVars, events, stats, agent_stats,
                   event_queue, pollVars>>

CursesRecv == \E sent \in Sendable : CursesRecvFrame(sent)

\* self.events.append(event)
CursesAppend ==
    /\ mode = "curses" /\ ctlpc # "exited"
    /\ netpc = "append"
    /\ events' = Append(events, cur)
    /\ netpc' = "update_stats"
    /\ UNCHANGED <<configVars, ctlVars, uiVars, dispVars, stats, agent_stats, event_queue,
                   offered, cur, serverVars, pollVars>>

\* update_stats(event); a payload without .get raises after the first two
\* counters, and the bare except skips the rest of the body
CursesUpdateStats ==
    /\ mode = "curses" /\ ctlpc # "exited"
    /\ netpc = "update_stats"
    /\ stats' = Inc(Inc(stats, "total"), Get(cur, "event_type", "unknown"))
    /\ IF PayloadRaises(cur)
       THEN /\ netpc' = "streaming"
            /\ cur' = NoEvent
            /\ UNCHANGED agent_stats
       ELSE /\ agent_stats' = Inc2(agent_stats, Get(cur, "app", "unknown"), AgentTypeOf(cur))
            /\ netpc' = "trim"
            /\ UNCHANGED cur
    /\ UNCHANGED <<configVars, ctlVars, uiVars, dispVars, events, event_queue, offered,
                   serverVars, pollVars>>

\* a trim that also takes the evicted event out of the total: what the code
\* does not do
CursesTrimExpiring ==
    /\ mode = "curses" /\ ctlpc # "exited"
    /\ netpc = "trim"
    /\ events' = IF Len(events) > DashWindow THEN Tail(events) ELSE events
    /\ stats' = IF Len(events) > DashWindow
                THEN [stats EXCEPT !["total"] = @ - 1] ELSE stats
    /\ cur' = NoEvent
    /\ netpc' = "streaming"
    /\ UNCHANGED <<configVars, ctlVars, uiVars, dispVars, agent_stats, event_queue,
                   offered, serverVars, pollVars>>

\* if len(self.events) > 500: self.events.pop(0)
CursesTrim ==
    /\ mode = "curses" /\ ctlpc # "exited"
    /\ netpc = "trim"
    /\ events' = IF Len(events) > DashWindow THEN Tail(events) ELSE events
    /\ cur' = NoEvent
    /\ netpc' = "streaming"
    /\ UNCHANGED <<configVars, ctlVars, uiVars, dispVars, stats, agent_stats, event_queue,
                   offered, serverVars, pollVars>>

\* the connection breaks: the outer bare except, then asyncio.sleep(2)
CursesConnectionLost ==
    /\ mode = "curses" /\ ctlpc # "exited"
    /\ netpc = "streaming"
    /\ netpc' = "backoff"
    /\ UNCHANGED <<configVars, ctlVars, uiVars, dispVars, aggVars, cur, serverVars, pollVars>>

\* the server closes normally: the async for ends, no sleep
CursesServerClose ==
    /\ mode = "curses" /\ ctlpc # "exited"
    /\ netpc = "streaming"
    /\ netpc' = "loop"
    /\ UNCHANGED <<configVars, ctlVars, uiVars, dispVars, aggVars, cur, serverVars, pollVars>>

CursesBackoffDone ==
    /\ mode = "curses" /\ ctlpc # "exited"
    /\ netpc = "backoff"
    /\ netpc' = "loop"
    /\ UNCHANGED <<configVars, ctlVars, uiVars, dispVars, aggVars, cur, serverVars, pollVars>>

\* a slice that keeps the head of the sequence instead of its tail: what the
\* code does not do
PySliceHead(seq, k) ==
    LET n == Len(seq)
        upto == IF k < 0 THEN (IF 0 - k > n THEN n ELSE 0 - k) ELSE (IF k > n THEN 0 ELSE n - k)
    IN  SubSeq(seq, 1, upto)

\* seq[k:] of Python for any integer k
PySliceFrom(seq, k) ==
    LET n == Len(seq)
        from == IF k < 0 THEN (IF k + n < 0 THEN 0 ELSE k + n) ELSE (IF k > n THEN n ELSE k)
    IN  SubSeq(seq, from + 1, n)

\* draw_ui's event pane: visible_events = self.events[-event_height:], drawn
\* from row 3 until row height - 3 is reached
DrawnEvents(evs, height) ==
    LET event_height == height - 3 - 3
        visible == PySliceFrom(evs, 0 - event_height)
        rows == IF event_height < 0 THEN 0 ELSE event_height
    IN  SubSeq(visible, 1, IF Len(visible) < rows THEN Len(visible) ELSE rows)

\* formatting a pane line raises on the timestamp or on the payload
DrawRaises(evs, height) ==
    \E i \in 1..Len(DrawnEvents(evs, height)) : FormatRaises(DrawnEvents(evs, height)[i])

\* the length of the footer; curses raises when a string does not fit on the
\* last row, or ends in its last cell
FooterLen == 49

\* draw_ui's header, counter bar and footer raise curses.error on a terminal
\* they do not fit
ChromeRaises(t) == t.height < 2 \/ t.width <= FooterLen

\* len(self.agent_stats)
AgentCount == Cardinality({a \in AppKeys : \E t \in AgentTypes : agent_stats[a][t] > 0})

\* run(): while self.running: draw_ui(stdscr).  The terminal changes at
\* stdscr.refresh(), the last statement; an exception before it skips the
\* refresh and handle_input, and run() swallows it.
CursesDraw ==
    /\ mode = "curses"
    /\ ctlpc = "main" /\ running
    /\ IF ChromeRaises(term) \/ DrawRaises(events, term.height)
       THEN UNCHANGED <<screen, ctlpc>>
       ELSE /\ screen' = [total |-> stats["total"], agents |-> AgentCount,
                          paused |-> pause, lines |-> DrawnEvents(events, term.height)]
            /\ ctlpc' = "input"
    /\ UNCHANGED <<configVars, running, statsPrinted, pause, show_details, pausedAt,
                   dispVars, aggVars, netpc, cur, serverVars, pollVars>>

\* handle_input: key = stdscr.getch(), -1 after 100 ms without a key
CursesInput ==
    /\ mode = "curses"
    /\ ctlpc = "input"
    /\ \E key \in {"none", "q", "p", "d", "s"} :
         /\ running' = IF key = "q" THEN FALSE ELSE running
         /\ pause' = IF key = "p" THEN ~pause ELSE pause
         /\ pausedAt' = IF key = "p" THEN (IF pause THEN 0 ELSE Len(offered)) ELSE pausedAt
         /\ show_details' = IF key = "d" THEN ~show_details ELSE show_details
         /\ ctlpc' = IF key = "s" THEN "popup" ELSE "main"
    /\ UNCHANGED <<configVars, statsPrinted, screen, dispVars, aggVars, netpc, cur,
                   serverVars, pollVars>>

\* show_stats_window: win.getch() returns on any key
CursesPopupKey ==
    /\ mode = "curses"
    /\ ctlpc = "popup"
    /\ ctlpc' = "main"
    /\ UNCHANGED <<configVars, running, statsPrinted, uiVars, dispVars, aggVars, netpc,
                   cur, serverVars, pollVars>>

\* KeyboardInterrupt inside run()'s try: self.running = False
CursesInterrupt ==
    /\ mode = "curses"
    /\ ctlpc \in {"main", "input", "popup"} /\ running
    /\ running' = FALSE
    /\ ctlpc' = "main"
    /\ UNCHANGED <<configVars, statsPrinted, uiVars, dispVars, aggVars, netpc, cur,
                   serverVars, pollVars>>

\* run() returns; curses.wrapper restores the terminal
CursesRunReturn ==
    /\ mode = "curses"
    /\ ctlpc = "main" /\ ~running
    /\ ctlpc' = "returned"
    /\ UNCHANGED <<configVars, running, statsPrinted, uiVars, dispVars, aggVars, netpc,
                   cur, serverVars, pollVars>>

\* main() returns and the process ends, and the daemon receive thread with it
CursesProcessExit ==
    /\ mode = "curses"
    /\ ctlpc = "returned"
    /\ ctlpc' = "exited"
    /\ UNCHANGED <<configVars, running, statsPrinted, uiVars, dispVars, aggVars, netpc,
                   cur, serverVars, pollVars>>

NextCurses ==
    \/ CursesLoopCheck \/ CursesConnectOk \/ CursesConnectFail \/ CursesRecv
    \/ CursesAppend \/ CursesUpdateStats \/ CursesTrim
    \/ CursesConnectionLost \/ CursesServerClose \/ CursesBackoffDone
    \/ CursesDraw \/ CursesInput \/ CursesPopupKey \/ CursesInterrupt
    \/ CursesRunReturn \/ CursesProcessExit

(***************************************************************************)
(* The polling viewer: SimpleAgentStream.                                  *)
(***************************************************************************)
\* The server logs an event; it gives it the next id or none.
PollServerProduce ==
    /\ mode = "poll"
    /\ ctlpc # "exited"
    /\ Len(produced) < maxProduced
    /\ \E s \in shapes, id \in {Absent, IdOf(Len(produced) + 1)} :
         produced' = Append(produced, WithId(s, id))
    /\ UNCHANGED <<configVars, ctlVars, uiVars, dispVars, aggVars, netpc, cur,
                   initPending, backfills, pollVars>>

\* fetch_events(): the page of the newest events, or [] after any exception
FetchEvents(ok) == IF ok THEN LastN(produced, PollLimit) ELSE <<>>

\* poll_events: while self.running: events = self.fetch_events()
PollFetch ==
    /\ mode = "poll"
    /\ ctlpc = "main" /\ running
    /\ backfills < MaxPolls
    /\ backfills' = backfills + 1
    /\ \E ok \in BOOLEAN : fetchOk' = ok /\ batch' = FetchEvents(ok)
    /\ batchidx' = 1
    /\ ctlpc' = "for"
    /\ UNCHANGED <<configVars, running, statsPrinted, uiVars, dispVars, aggVars, netpc,
                   cur, produced, initPending, seen_ids>>

\* display_event(event) raises on the timestamp, and on payload.get when the
\* payload is neither a mapping nor a string
DisplayEventRaises(event) == TimestampRaises(event) \/ PayloadRaises(event)

\* One round of `for event in events`: the seen test, seen_ids.add,
\* display_event (which counts and prints), and seen_ids.pop() once more than
\* 100 ids are held; set.pop() removes an arbitrary element.  An exception of
\* display_event leaves the for loop: except Exception, sleep, next poll.
PollEvent ==
    /\ mode = "poll"
    /\ ctlpc = "for" /\ batchidx <= Len(batch)
    /\ LET event == batch[batchidx]
           event_id == Get(event, "id", None)
       IN  IF event_id \in seen_ids
           THEN /\ batchidx' = batchidx + 1
                /\ UNCHANGED <<seen_ids, stats, printed, ctlpc>>
           ELSE IF DisplayEventRaises(event)
           THEN /\ seen_ids' = seen_ids \cup {event_id}
                /\ ctlpc' = "main"
                /\ UNCHANGED <<batchidx, stats, printed>>
           ELSE /\ stats' = Inc(Inc(stats, "total"), Get(event, "event_type", "unknown"))
                /\ printed' = Append(printed, event)
                /\ batchidx' = batchidx + 1
                /\ IF Cardinality(seen_ids \cup {event_id}) > SeenLimit
                   THEN \E x \in seen_ids \cup {event_id} :
                            seen_ids' = (seen_ids \cup {event_id}) \ {x}
                   ELSE seen_ids' = seen_ids \cup {event_id}
                /\ UNCHANGED ctlpc
    /\ UNCHANGED <<configVars, running, statsPrinted, uiVars, disppc, dispcur, events,
                   agent_stats, event_queue, offered, netpc, cur, serverVars, fetchOk,
                   batch>>

\* the for loop is through: time.sleep(1), next poll
PollSleep ==
    /\ mode = "poll"
    /\ ctlpc = "for" /\ batchidx > Len(batch)
    /\ ctlpc' = "main"
    /\ UNCHANGED <<configVars, running, statsPrinted, uiVars, dispVars, aggVars, netpc,
                   cur, serverVars, pollVars>>

\* KeyboardInterrupt: self.running = False and break; run()'s finally prints
\* the statistics and the process ends
PollInterrupt ==
    /\ mode = "poll"
    /\ ctlpc \in {"main", "for"}
    /\ running' = FALSE
    /\ statsPrinted' = TRUE
    /\ ctlpc' = "exited"
    /\ UNCHANGED <<configVars, uiVars, dispVars, aggVars, netpc, cur, serverVars, pollVars>>

NextPoll == PollServerProduce \/ PollFetch \/ PollEvent \/ PollSleep \/ PollInterrupt

Next == ServerProduce \/ NextLog \/ NextCurses \/ NextPoll

Spec == Init /\ [][Next]_vars

(***************************************************************************)
(* Scheduling.  Each thread of the program keeps running: the receive      *)
(* loop's own statements (a connection attempt ends, one way or the other; *)
(* a sleep ends), the display thread, and the controlling loop (getch      *)
(* returns after 100 ms).  Nothing makes the server send a frame or close  *)
(* the connection, or the user press a key or interrupt.                   *)
(***************************************************************************)
NetSteps ==
    \/ LogLoopCheck \/ LogConnectOk \/ LogConnectFail \/ LogBackoffDone
    \/ CursesLoopCheck \/ CursesConnectOk \/ CursesConnectFail \/ CursesBackoffDone
    \/ CursesAppend \/ CursesUpdateStats \/ CursesTrim

DisplaySteps == DisplayGet \/ DisplayPrint \/ DisplayExit

ControlSteps ==
    \/ LogStreamTaskDone
    \/ CursesDraw \/ CursesInput \/ CursesRunReturn \/ CursesProcessExit
    \/ PollFetch \/ PollEvent \/ PollSleep

Fairness == WF_vars(NetSteps) /\ WF_vars(DisplaySteps) /\ WF_vars(ControlSteps)

\* every viewer, without command-line filters, the server drawing from one
\* well-formed event and one whose payload is not a mapping
InitFair ==
    /\ mode \in {"log", "curses", "poll"}
    /\ args = [filter_app |-> None, filter_type |-> None]
    /\ shapes = {s \in EventShapes : s.timestamp = "ok" /\ s.event_type = "tool_use"}
    /\ maxProduced = FairProduced
    /\ Start
    /\ term = DefaultTerm

FairSpec == InitFair /\ [][Next]_vars /\ Fairness

\* every viewer, without command-line filters, the server drawing from the
\* two events of the specification's scenario: tool_use from A, error from B,
\* neither with a payload
InitScenario ==
    /\ mode \in {"log", "curses", "poll"}
    /\ args = [filter_app |-> None, filter_type |-> None]
    /\ shapes = {s \in EventShapes : s.payload = Absent}
    /\ maxProduced = ScenarioLen
    /\ Start
    /\ term = DefaultTerm

ScenarioSpec == InitScenario /\ [][Next]_vars

\* every viewer; the append-log viewer with every command line over an
\* unset, an empty and a named filter; the server drawing from CaseShapes
InitFilter ==
    /\ mode \in {"log", "curses", "poll"}
    /\ args \in [filter_app : {None, "", "A"}, filter_type : {None, "", "tool_use"}]
    /\ mode # "log" => args = [filter_app |-> None, filter_type |-> None]
    /\ shapes = CaseShapes
    /\ maxProduced = FilterProduced
    /\ Start
    /\ term = DefaultTerm

FilterSpec == InitFilter /\ [][Next]_vars

\* every viewer on a terminal of every height up to MaxHeight, the server
\* sending one well-formed event after another
InitPane ==
    /\ mode \in {"log", "curses", "poll"}
    /\ args = [filter_app |-> None, filter_type |-> None]
    /\ shapes = {s \in EventShapes : s.app = "A" /\ s.event_type = "tool_use"}
    /\ maxProduced = MaxLive
    /\ term \in [height : 0..MaxHeight, width : {TermWidth}]
    /\ mode # "curses" => term = DefaultTerm
    /\ Start

PaneSpec == InitPane /\ [][Next]_vars

(***************************************************************************)
(* The event line of the two WebSocket viewers, by its length in           *)
(* characters: "HH:MM:SS [app] icon event_type", then " - summary".        *)
(***************************************************************************)
\* strftime("%H:%M:%S"), app[:20], one icon
TimeLen == 8
AppCut == 20
IconLen == 1

\* len(s[:k]) of Python for a string of n characters and any integer k
PySliceLenTo(n, k) ==
    IF k >= 0 THEN (IF n < k THEN n ELSE k) ELSE (IF n + k < 0 THEN 0 ELSE n + k)

\* len of f"{timestamp} [{app}] {icon} {event_type}"
BaseLen(app, event_type) == TimeLen + 2 + app + 2 + IconLen + 1 + event_type

\* the whole line with its summary, uncut
FullLen(app, event_type, summary) ==
    BaseLen(app, event_type) + (IF summary > 0 THEN 3 + summary ELSE 0)

\* draw_ui: the app cut to 20 characters, the summary cut to the remaining
\* width, the line cut to width - 1
CursesLine(app, event_type, summary, width) ==
    LET base == BaseLen(IF app > AppCut THEN AppCut ELSE app, event_type)
        remaining_width == width - base - 3
        cutSummary == summary > 0 /\ summary > remaining_width
        shown == IF cutSummary THEN PySliceLenTo(summary, remaining_width - 3) + 3
                 ELSE summary
        built == IF summary > 0 THEN base + 3 + shown ELSE base
        cutLine == built > width - 1
    IN  [len |-> IF cutLine THEN PySliceLenTo(built, width - 4) + 3 ELSE built,
         full |-> FullLen(IF app > AppCut THEN AppCut ELSE app, event_type, summary),
         ellipsis |-> cutLine \/ cutSummary,
         rows |-> 1]

\* format_event: the line is returned as built, and a second line of payload
\* details is added under show_details
LogLine(app, event_type, summary) ==
    [len |-> FullLen(app, event_type, summary),
     full |-> FullLen(app, event_type, summary),
     ellipsis |-> FALSE,
     rows |-> IF show_details THEN 2 ELSE 1]

\* One event line is built and shown: print(self.format_event(event)) of the
\* append-log viewer, stdscr.addstr(y, 0, line, color) of a redraw of the
\* dashboard that gets to stdscr.refresh().
RenderLine ==
    /\ line = NoLine
    /\ mode = "curses" => ~ChromeRaises(term)
    /\ \E app \in 0..MaxApp, event_type \in 1..MaxType, summary \in 0..MaxSummary :
         line' = IF mode = "log" THEN LogLine(app, event_type, summary)
                 ELSE CursesLine(app, event_type, summary, term.width)
    /\ UNCHANGED <<mode, args, filter_app, filter_type, shapes, maxProduced, term,
                   ctlVars, uiVars, dispVars, aggVars, netpc, cur, serverVars, pollVars,
                   observerVars>>

\* the two WebSocket viewers on a terminal of every width up to MaxWidth
InitLine ==
    /\ mode \in {"log", "curses"}
    /\ args = [filter_app |-> None, filter_type |-> None]
    /\ shapes = {}
    /\ maxProduced = 0
    /\ term \in [height : {TermHeight}, width : 0..MaxWidth]
    /\ Start

LineSpec == InitLine /\ [][RenderLine]_vars

(***************************************************************************)
(* Notions the claims are stated in.                                       *)
(***************************************************************************)
\* the window size of the running viewer
Window == IF mode = "log" THEN LogWindow ELSE DashWindow

\* the receive loop stands between two messages, not inside the handling of one
NetIdle == netpc \notin {"append", "update_stats", "trim"}

\* The events the aggregator accepted: those handed to it that passed the
\* filter in force (the dashboard applies none; the append-log viewer never
\* sets pause).
Accepted == SelectSeq(offered, LAMBDA e : ~FilterRejects(e))

\* the filter the command line asks for
PassesArgs(event) ==
    /\ Truthy(args.filter_app) => Get(event, "app", None) = args.filter_app
    /\ Truthy(args.filter_type) => Get(event, "event_type", None) = args.filter_type

Range(seq) == {seq[i] : i \in DOMAIN seq}

Count(seq, P(_)) == Len(SelectSeq(seq, P))

\* no accepted event carries the category "total", whose counter is the
\* total's own dictionary entry
NoTotalCategory == \A e \in Range(Accepted) : e.event_type # "total"

\* bySourceAndType has an entry for the app
HasAgentKey(a) == \E t \in AgentTypes : agent_stats[a][t] > 0

(***************************************************************************)
(* C1..C10                                                                 *)
(***************************************************************************)
\* C1: once more than Window events were accepted and the last one is
\* processed, `recent` is the last Window accepted events in arrival order and
\* totalCount is the number of accepted events.  (Stated for runs without the
\* category "total"; violated: an event whose payload is not a mapping is
\* counted and then raises before the window is maintained.)
C1_RecentIsLastWindow ==
    (mode \in {"log", "curses"} /\ NetIdle /\ NoTotalCategory /\ Len(Accepted) > Window)
        => /\ events = LastN(Accepted, Window)
           /\ stats["total"] = Len(Accepted)

\* C2: every event that was counted, stored in `recent`, queued for display
\* or rendered passed the source and category filter of the command line.
\* (Violated: main() never gives the dashboard the filters.)
C2_OnlyFilteredEventsVisible ==
    /\ \A e \in Range(events) \cup Range(event_queue) \cup Range(printed)
                 \cup Range(screen.lines) :
           PassesArgs(e)
    /\ Truthy(args.filter_app) =>
           \A a \in AppKeys \ {args.filter_app} : ~HasAgentKey(a)
    /\ Truthy(args.filter_type) =>
           \A k \in StatKeys \ {args.filter_type, "total"} : stats[k] = 0

\* C3: with a source filter S (and no category filter) the aggregate state has
\* no bySourceAndType key other than S, totalCount is the number of events
\* from S handed to the aggregator and byCategory counts exactly the events
\* from S; for tool_use/A, error/B, tool_use/A with filter A the total is 2.
\* (Violated: an event from S of category "total" raises totalCount by two.)
C3_SourceFilterAggregates ==
    (mode = "log" /\ Truthy(filter_app) /\ ~Truthy(filter_type)) =>
        /\ \A a \in AppKeys \ {filter_app} : ~HasAgentKey(a)
        /\ stats["total"] = Count(offered, LAMBDA e : e.app = filter_app)
        /\ \A k \in StatKeys \ {"total"} :
               stats[k] = Count(offered, LAMBDA e :
                                  e.app = filter_app /\ Get(e, "event_type", "unknown") = k)

\* a frame the Event Model cannot parse: text that is not JSON, JSON that is
\* not an object, an event without a parsable timestamp, a source or a category
Unparsable(frame) ==
    \/ frame.kind \in {"garbage", "nonobject"}
    \/ /\ frame.kind = "event"
       /\ \/ TimestampRaises(frame.events[1])
          \/ frame.events[1].app = Absent
          \/ frame.events[1].event_type = Absent

\* C4: a frame that fails parsing changes no counter, adds nothing to `recent`
\* and leaves the connection streaming.  (Violated: in append-log mode JSON
\* that is not an object raises AttributeError, which ends the connection.)
C4_UnparsableFrameSkipped ==
    [][\A sent \in Sendable :
         (running /\ Unparsable(sent.frame)
                  /\ (LogRecvFrame(sent) \/ CursesRecvFrame(sent)))
             => /\ UNCHANGED <<events, stats, agent_stats>>
                /\ netpc' = "streaming"]_vars

\* the events handed to the aggregator since pause was set
ArrivedWhilePaused == IF pause THEN Range(SubSeq(offered, pausedAt + 1, Len(offered))) ELSE {}

\* C5: while the pause flag is set the renderer shows no new events: no event
\* that arrived during the pause is on the dashboard's event pane or in the
\* printed log.  (Violated: the dashboard's pause flag only adds "PAUSED" to
\* the status bar.)
C5_PauseHaltsRenderer ==
    pause => (Range(screen.lines) \cup Range(printed)) \cap ArrivedWhilePaused = {}

\* C6: while paused no newly received event is fed to the renderer: no event
\* that arrived during the pause is in the dashboard's `recent`, which draw_ui
\* reads, or in the display queue.  (Violated: the dashboard's receive loop
\* never reads the pause flag.)
C6_PausedEventsNotFed ==
    pause => (Range(events) \cup Range(event_queue)) \cap ArrivedWhilePaused = {}

\* C7: with sequence ids present each distinct id contributes exactly one to
\* totalCount over any number of reconnects.  (Stated for runs without the
\* category "total"; violated: the reconnect backfill is processed again.)
C7_EachIdCountedOnce ==
    (mode \in {"log", "curses"} /\ NetIdle /\ NoTotalCategory)
        => stats["total"] = Cardinality({e.id : e \in Range(Accepted)})

\* The connection state of the Transport Client, read off the receive loop.
ConnState ==
    CASE netpc = "closed" \/ ctlpc = "exited" -> "Closed"
      [] netpc = "connecting" -> "Connecting"
      [] netpc \in {"streaming", "append", "update_stats", "trim"} -> "Streaming"
      [] OTHER -> "Disconnected"

\* C8: the connection state moves Disconnected -> Connecting -> Streaming ->
\* Disconnected (a failed attempt also returns to Disconnected); once the
\* process is told to stop it reaches Closed, and Closed is terminal.
\* (Violated: nothing closes the connection on stop, so the append-log
\* viewer's receive loop, waiting for a frame, never reaches Closed.)
C8_ConnectionLifecycle ==
    /\ [][(mode \in {"log", "curses"} /\ ConnState' # ConnState /\ ConnState' # "Closed")
             => <<ConnState, ConnState'>> \in
                  { <<"Disconnected", "Connecting">>, <<"Connecting", "Streaming">>,
                    <<"Streaming", "Disconnected">>, <<"Connecting", "Disconnected">> }]_vars
    /\ [][ConnState = "Closed" => (ConnState' = "Closed" /\ netpc' = netpc)]_vars
    /\ (mode \in {"log", "curses"} /\ ~running) ~> (ConnState = "Closed")

\* C9: transport failures are never fatal.  The receive loop ends only when
\* stop was requested (the flag is down, or the interrupt ended the process);
\* after a connection loss or a failed attempt the client attempts to connect
\* again unless stop is requested; in the polling viewer a failed fetch yields
\* no events, the loop ends only on interrupt and comes back to polling.
C9_TransportFailuresRetried ==
    /\ [](netpc = "closed" => (~running \/ ctlpc = "exited"))
    /\ [](mode = "poll" => /\ ~fetchOk => batch = <<>>
                           /\ ctlpc = "exited" => ~running)
    /\ (mode \in {"log", "curses"} /\ netpc \in {"backoff", "loop"})
           ~> (netpc = "connecting" \/ ~running \/ ctlpc = "exited")
    /\ (mode = "poll" /\ ctlpc = "for") ~> (ctlpc \in {"main", "exited"})

\* C9's case: events were received on a connection, it was lost, and the
\* client, not told to stop, is connecting again
C9_Witness ==
    /\ mode \in {"log", "curses"} /\ running /\ ctlpc # "exited"
    /\ netpc = "connecting"
    /\ offered # <<>>

\* the running flag is down and the stop has returned: the dashboard's run()
\* has returned, the append-log viewer's stream task has ended
Stopped ==
    /\ ~running
    /\ \/ mode = "curses" /\ ctlpc = "returned"
       \/ mode = "log" /\ netpc = "closed"

\* C10: once the running flag is cleared and stop has returned, no event is
\* counted, appended to `recent`, queued or rendered.  (Violated: a frame
\* that passed the running test before the stop is still appended and counted
\* by the dashboard's receive thread.)
C10_NoCallbackAfterStop ==
    [][Stopped => /\ UNCHANGED <<events, stats, agent_stats, printed, screen>>
                  /\ Len(event_queue') <= Len(event_queue)]_vars

(***************************************************************************)
(* C11..C20                                                                *)
(***************************************************************************)
\* connect_and_stream has returned, or the process is gone
ReceiveLoopEnded == netpc = "closed" \/ ctlpc = "exited"

\* the loop that shows events has ended: run_display_thread in the append-log
\* viewer, run()'s UI loop in the dashboard, poll_events in the polling viewer
DrawLoopEnded ==
    CASE mode = "log" -> disppc = "done" \/ ctlpc = "exited"
      [] mode = "curses" -> ctlpc \in {"returned", "exited"}
      [] OTHER -> ctlpc = "exited"

\* C11: shutdown always completes.  After stop is requested the receive loop
\* ends, the draw/display loop ends, and the process exits.  (Violated: the
\* append-log viewer's receive loop tests the flag only after a frame arrived;
\* on an idle connection it never ends, and run_interactive awaits it forever.)
C11_ShutdownCompletes ==
    /\ ~running ~> ReceiveLoopEnded
    /\ ~running ~> DrawLoopEnded
    /\ ~running ~> (ctlpc = "exited")

\* a step of connect_and_stream, the receive loop of either viewer
ReceiveLoopStep ==
    \/ LogLoopCheck \/ LogConnectOk \/ LogConnectFail \/ LogRecv
    \/ LogConnectionLost \/ LogServerClose \/ LogBackoffDone
    \/ CursesLoopCheck \/ CursesConnectOk \/ CursesConnectFail \/ CursesRecv
    \/ CursesAppend \/ CursesUpdateStats \/ CursesTrim
    \/ CursesConnectionLost \/ CursesServerClose \/ CursesBackoffDone

\* C12: the receive loop never mutates the aggregate state itself: no step of
\* the receive loop changes `recent` or a counter.  (Violated: both receive
\* loops count and store the event themselves; there is no separate consumer
\* of accepted events.)
C12_ReceiveLoopOnlyHandsOff ==
    [][ReceiveLoopStep => UNCHANGED <<events, stats, agent_stats>>]_vars

\* C13: what a dashboard redraw shows is never half-updated: the events on the
\* event pane have all been counted, so the total it shows is at least the
\* number of events it shows.  (Violated: the receive thread appends the event
\* and counts it afterwards, and a redraw may run between the two.)
C13_RedrawSeesCountedEvents ==
    mode = "curses" => Len(screen.lines) <= screen.total

\* C14: in every state `recent` holds at most Window events.  (Violated: the
\* dashboard appends first and evicts after update_stats, and not at all when
\* update_stats raises.)
C14_WindowNeverExceeded == Len(events) <= Window

\* C15: the hand-off queue between the receive loop and the display thread is
\* bounded: it never holds more than QueueCapacity events.  (Violated:
\* queue.Queue() has no maxsize and put never blocks; with the display thread
\* behind, the queue holds every accepted event.)
C15_HandOffQueueBounded == Len(event_queue) <= QueueCapacity

\* C16: the client never reconnects immediately: when a connection has ended
\* and the receive loop is back at its loop test without having slept, the
\* running flag is down, so that no attempt follows.  (Violated: a normal
\* close by the server ends the async for without an exception, and the loop
\* connects again at once.)
C16_BackoffBeforeReconnect ==
    [][(mode \in {"log", "curses"} /\ ConnState = "Streaming" /\ netpc' = "loop")
          => ~running]_vars

\* What the dashboard's receive loop does with one live event, start to end:
\* append, update_stats, and the eviction unless update_stats raised.
DashLive(a, event) ==
    LET appended == Append(a.events, event)
        counted == Inc(Inc(a.stats, "total"), Get(event, "event_type", "unknown"))
    IN  IF PayloadRaises(event)
        THEN [a EXCEPT !.events = appended, !.stats = counted,
                       !.offered = Append(@, event)]
        ELSE [a EXCEPT !.events = IF Len(appended) > DashWindow THEN Tail(appended)
                                  ELSE appended,
                       !.stats = counted,
                       !.agent_stats = Inc2(@, Get(event, "app", "unknown"),
                                            AgentTypeOf(event)),
                       !.offered = Append(@, event)]

\* one event delivered as a live message of its own
LiveOne(a, event) ==
    IF mode = "log"
    THEN HandleMessage([a EXCEPT !.raised = FALSE], Frame("event", <<event>>))
    ELSE DashLive(a, event)

\* the events of a list delivered one by one as live messages
RECURSIVE OneByOne(_, _)
OneByOne(a, evs) ==
    IF evs = <<>> THEN a ELSE OneByOne(LiveOne(a, Head(evs)), Tail(evs))

\* C17: a backfill batch leaves `recent` and all counters as the same events
\* delivered one by one as live messages would, in both display modes.
\* (Violated: the dashboard handles only messages of type "event" and ignores
\* the batch; the append-log viewer abandons the rest of a batch when one of
\* its events raises.)
C17_BackfillAsLive ==
    [][\A sent \in Sendable :
         (running /\ sent.frame.kind = "init"
                  /\ (LogRecvFrame(sent) \/ CursesRecvFrame(sent)))
             => LET a == OneByOne(Agg, sent.frame.events)
                IN  /\ events' = a.events
                    /\ stats' = a.stats
                    /\ agent_stats' = a.agent_stats]_vars

\* an event record the Event Model accepts: a parsable timestamp, a source and
\* a category
WellFormed(event) ==
    /\ ~TimestampRaises(event)
    /\ event.app # Absent
    /\ event.event_type # Absent

\* C18: an event whose timestamp is missing or unparsable, or whose source or
\* category is missing, is never counted, stored, queued or rendered, and is
\* given no default: nothing is counted under "unknown".  (Violated: neither
\* viewer validates an event; it is counted and stored with the defaults of
\* event.get.)
C18_MalformedEventsRejected ==
    /\ \A e \in Range(events) \cup Range(event_queue) \cup Range(printed)
                 \cup Range(screen.lines) :
           WellFormed(e)
    /\ stats["unknown"] = 0
    /\ ~HasAgentKey("unknown")

\* accept(event) of the Aggregator, on the counters: totalCount and the
\* event's category each one more, every other entry as it was
AcceptStats(st, event) ==
    [k \in StatKeys |-> IF k \in {"total", event.event_type} THEN st[k] + 1 ELSE st[k]]

\* accept(event) on bySourceAndType: [source][agent_type] one more, the agent
\* type "unknown" when the event carries none
AcceptAgentStats(ag, event) ==
    Inc2(ag, event.app, IF event.payload \in AgentTypes THEN event.payload ELSE "unknown")

\* the event names its source and its category
Named(event) == event.app # Absent /\ event.event_type # Absent

\* C19: an accepted event changes the aggregate state by exactly this: it is
\* appended to `recent` (the oldest evicted if the window was full), and
\* totalCount, byCategory[category] and bySourceAndType[source][agent_type]
\* are each one more; every other entry is unchanged.  Stated for the live
\* event the append-log viewer accepts, for update_stats of the dashboard and
\* for the event the polling viewer displays.  (Violated: the total is kept
\* in the per-category dictionary, so an event of category "total" raises it
\* by two; a payload that is not a mapping raises before bySourceAndType and
\* `recent` are written.)
C19_AcceptEffect ==
    /\ [][\A sent \in Sendable :
            (/\ mode = "log" /\ running /\ ~pause
             /\ sent.frame.kind = "event"
             /\ Named(sent.frame.events[1])
             /\ ~FilterRejects(sent.frame.events[1])
             /\ LogRecvFrame(sent))
              => /\ events' = AppendTrim(events, sent.frame.events[1], LogWindow)
                 /\ stats' = AcceptStats(stats, sent.frame.events[1])
                 /\ agent_stats' = AcceptAgentStats(agent_stats, sent.frame.events[1])]_vars
    /\ [][(mode = "curses" /\ Named(cur) /\ CursesUpdateStats)
              => /\ stats' = AcceptStats(stats, cur)
                 /\ agent_stats' = AcceptAgentStats(agent_stats, cur)]_vars
    /\ [][(mode = "poll" /\ PollEvent /\ printed' # printed /\ Named(batch[batchidx]))
              => stats' = AcceptStats(stats, batch[batchidx])]_vars

\* source, category and payload of the events handed to the aggregator so far
Fed == [i \in DOMAIN offered |-> <<offered[i].app, offered[i].event_type, offered[i].payload>>]

\* C20: feeding tool_use from A, error from B, tool_use from A, none with an
\* agent_type, with no filter yields totalCount 3, byCategory {tool_use: 2,
\* error: 1} and bySourceAndType {A: {unknown: 2}, B: {unknown: 1}}.
C20_ThreeEventScenario ==
    (/\ mode \in {"log", "curses"} /\ NetIdle
     /\ ~Truthy(filter_app) /\ ~Truthy(filter_type)
     /\ Fed = << <<"A", "tool_use", Absent>>, <<"B", "error", Absent>>,
                 <<"A", "tool_use", Absent>> >>)
        => /\ stats = [k \in StatKeys |->
                         CASE k = "total" -> 3 [] k = "tool_use" -> 2
                           [] k = "error" -> 1 [] OTHER -> 0]
           /\ agent_stats = [a \in AppKeys |-> [t \in AgentTypes |->
                         CASE t = "unknown" /\ a = "A" -> 2
                           [] t = "unknown" /\ a = "B" -> 1
                           [] OTHER -> 0]]

\* C20's case: the append-log viewer has processed the three events
C20_Witness ==
    /\ mode = "log" /\ NetIdle
    /\ Fed = << <<"A", "tool_use", Absent>>, <<"B", "error", Absent>>,
                <<"A", "tool_use", Absent>> >>
    /\ Len(events) = LogWindow

(***************************************************************************)
(* Counters, filter, rendering, shutdown: C21 to C30.                      *)
(***************************************************************************)
\* the steps that take the oldest event out of `events`
DashEvicts == mode = "curses" /\ netpc = "trim" /\ netpc' = "streaming"
                /\ Len(events') < Len(events)

\* C21: the total and every per-category and per-source counter never
\* decrease, whatever step is taken, and evicting the oldest event from the
\* window of recent events changes no counter: the dashboard's trim leaves
\* them alone, and the append-log viewer counts a frame the same whether or
\* not its window is full.
C21_CountersNeverDecrease ==
    [][ ( /\ \A k \in StatKeys : stats'[k] >= stats[k]
          /\ \A a \in AppKeys : \A t \in AgentTypes : agent_stats'[a][t] >= agent_stats[a][t]
          /\ DashEvicts => UNCHANGED <<stats, agent_stats>>
          /\ \A sent \in Sendable :
               (mode = "log" /\ running /\ LogRecvFrame(sent)) =>
                 LET fresh == HandleMessage([Agg EXCEPT !.events = <<>>], sent.frame)
                 IN  stats' = fresh.stats /\ agent_stats' = fresh.agent_stats ) ]_vars

\* an eviction has happened and the counters still count the evicted event
C21_Witness ==
    \/ /\ mode = "curses" /\ netpc = "streaming"
       /\ Len(produced) > DashWindow /\ events = LastN(produced, DashWindow)
       /\ stats["total"] >= Len(produced)
    \/ /\ mode = "log"
       /\ Len(offered) > LogWindow /\ Len(events) = LogWindow
       /\ stats["total"] > LogWindow


\* a filter is set when the command line named one: main() hands over
\* args.filter_app and args.filter_type, None without the option
FilterSet(x) == x # None /\ x # ""

\* the filter of the specification: each criterion that is set must be
\* matched exactly
SpecAccepts(event) ==
    /\ FilterSet(filter_app) => event.app = filter_app
    /\ FilterSet(filter_type) => event.event_type = filter_type

PollCurrent == IF batchidx \in DOMAIN batch THEN batch[batchidx] ELSE NoEvent

\* C23: de-duplication is skipped for an event without a sequence id: in the
\* polling viewer an event without id that display_event can show and that
\* was not displayed before is displayed and counted when the for loop
\* reaches it, never suppressed as the duplicate of another event without id.
C23_IdlessEventsDisplayed ==
    [][ ( /\ mode = "poll" /\ ctlpc = "for" /\ batchidx \in DOMAIN batch
          /\ PollCurrent.id = Absent
          /\ ~DisplayEventRaises(PollCurrent)
          /\ PollCurrent \notin Range(printed)
          /\ PollEvent )
        => ( /\ printed' = Append(printed, PollCurrent)
             /\ stats'["total"] > stats["total"] ) ]_vars

\* the frames that carry event records
CarriesEvents(frame) == frame.kind \in {"init", "event"}

\* the dashboard's draw loop is about to call draw_ui
DrawLoopTurning == mode = "curses" /\ ctlpc = "main" /\ running

\* C24: no event content makes a viewer stop: whatever the events of a frame
\* hold, the receive loop stays on its connection and waits for the next
\* frame; the display thread goes back to its queue after every event; and
\* no pass of the dashboard's draw loop finds an event that makes draw_ui
\* raise, so that every pass completes the redraw and reads the keyboard.
C24_EventContentNeverStopsViewer ==
    /\ [][ ( /\ \A sent \in Sendable :
                  (mode = "log" /\ running /\ CarriesEvents(sent.frame) /\ LogRecvFrame(sent))
                    => netpc' = "streaming"
             /\ \A sent \in Sendable :
                  (mode = "curses" /\ running /\ CarriesEvents(sent.frame) /\ CursesRecvFrame(sent))
                    => netpc' \in {"streaming", "append"}
             /\ CursesUpdateStats => netpc' \in {"streaming", "trim"}
             /\ DisplayPrint => disppc' = "loop" ) ]_vars
    /\ [](DrawLoopTurning => ~DrawRaises(events, term.height))

\* what a lookup gives when it raises instead of returning
Raised == "<raised>"

\* the keys of AGENT_COLORS (and of draw_ui's color_map) and of EVENT_TYPE_ICONS
AgentColorKeys == {"openai", "anthropic", "google", "cohere", "mistral", "deepseek",
                   "langchain", "custom", "unknown"}
IconKeys == {"llm_request", "llm_response", "tool_use", "function_call_start",
             "function_call_complete", "function_call_error", "error", "token_usage",
             "test", "pre_tool_use", "post_tool_use", "stop", "custom"}

\* agent_type = event.get("payload", {}).get("agent_type", "unknown"), then
\* AGENT_COLORS.get(agent_type, AGENT_COLORS["unknown"]): the color is named
\* by its key, "unknown" being the default
AgentColor(event) ==
    IF PayloadRaises(event) THEN Raised
    ELSE IF AgentTypeOf(event) \in AgentColorKeys THEN AgentTypeOf(event) ELSE "unknown"

\* EVENT_TYPE_ICONS.get(event_type, default glyph)
Glyph(event) ==
    IF Get(event, "event_type", "unknown") \in IconKeys
    THEN Get(event, "event_type", "unknown") ELSE "default"

\* the events whose color and glyph the viewer is about to look up: the one
\* the display thread prints, the one display_event is called with, and the
\* visible events draw_ui gets to, one after another, until one raises
AboutToFormat ==
    CASE mode = "log" -> IF disppc = "print" THEN {dispcur} ELSE {}
      [] mode = "poll" ->
           IF ctlpc = "for" /\ batchidx \in DOMAIN batch
                /\ Get(PollCurrent, "id", None) \notin seen_ids
           THEN {PollCurrent} ELSE {}
      [] OTHER ->
           IF DrawLoopTurning
           THEN LET vis == DrawnEvents(events, term.height)
                IN  {vis[i] : i \in {k \in DOMAIN vis :
                                       \A j \in 1..(k - 1) : ~FormatRaises(vis[j])}}
           ELSE {}

\* C25: looking up the color and the glyph of an event never raises: for
\* every event a viewer formats whose timestamp can be formatted, whatever
\* its agent_type and category, also ones absent from the lookup tables and
\* an absent agent_type, a color and a glyph are returned.
C25_LookupNeverRaises ==
    \A event \in AboutToFormat :
        ~TimestampRaises(event) => AgentColor(event) # Raised /\ Glyph(event) # Raised

\* the pane of the specification: the last min(H, |recent|) events, H the
\* rows between the counter bar and the footer, none when H is not positive
PaneOf(evs, height) ==
    LET H == IF height - 6 < 0 THEN 0 ELSE height - 6
        n == IF Len(evs) < H THEN Len(evs) ELSE H
    IN  SubSeq(evs, Len(evs) - n + 1, Len(evs))

C27_LinesFitWidth ==
    line # NoLine =>
        /\ line.len <= term.width
        /\ line.rows = 1
        /\ line.full > term.width => line.ellipsis
        /\ line.full <= term.width => line.len = line.full

\* C28: on every exit path after the user has asked to quit (quit key,
\* interrupt), in every viewer, the process has stopped its transport and
\* printed the final statistics summary when it exits (curses.wrapper restores
\* the terminal of the dashboard on every path).
C28_QuitPrintsSummary ==
    ctlpc = "exited" => ReceiveLoopEnded /\ statsPrinted

\* the per-category counters, as print_stats and show_stats list them: every
\* key of stats but "total"
CategorySum == SumOver(stats, StatKeys \ {"total"})

\* the sum of all counts of agent_stats
SourceTypeSum ==
    SumOver([a \in AppKeys |-> SumOver(agent_stats[a], AgentTypes)], AppKeys)

\* C29: the total counter equals the sum of the per-category counters and
\* (in the viewers that keep them) the sum of all per-source-and-agent-type
\* counts, for every category name, a category named "total" included.
C29_TotalsAgree ==
    /\ stats["total"] = CategorySum
    /\ mode \in {"log", "curses"} => stats["total"] = SourceTypeSum

\* the ids of the events the polling viewer has displayed, in order
PrintedIds == [i \in DOMAIN printed |-> printed[i].id]

\* C30: in the polling viewer an event with a given id is displayed and
\* counted at most once, however many consecutive polls return it, also after
\* the set of seen ids has reached its limit and has begun to discard ids.
C30_EachIdDisplayedOnce ==
    mode = "poll" =>
        \A i, j \in DOMAIN printed :
            (i # j /\ PrintedIds[i] # Absent) => PrintedIds[i] # PrintedIds[j]

(***************************************************************************)
(* Seen ids, the display thread, redraws: C31 to C33.                      *)
(***************************************************************************)
\* the ids of the events of the batch poll_events is going through
BatchIds == {Get(batch[i], "id", None) : i \in DOMAIN batch}

\* C31: in the polling viewer the set of seen ids holds at most the limit
\* (100 in the code) after each event is handled, and an id that is discarded
\* is never the id just added nor one of the current batch.
C31_SeenIdsBoundedAndRecent ==
    /\ [](mode = "poll" => Cardinality(seen_ids) <= SeenLimit)
    /\ [][ (mode = "poll" /\ PollEvent) =>
             \A x \in (seen_ids \cup {Get(PollCurrent, "id", None)}) \cap BatchIds :
                 x \in seen_ids' ]_vars

\* the events process_event has put on the hand-off queue so far, in order:
\* the ones that passed the filters and whose payload could be read
Queued == SelectSeq(offered, LAMBDA e : ~FilterRejects(e) /\ ~PayloadRaises(e))

\* the events format_event can format
Printable(seq) == SelectSeq(seq, LAMBDA e : ~FormatRaises(e))

\* the event the display thread has taken from the queue and not yet printed
InHand == IF disppc = "print" THEN <<dispcur>> ELSE <<>>

\* the display thread has left its loop, or the process is gone
DisplayEnded == disppc = "done" \/ ctlpc = "exited"

\* C32: in append-log mode every accepted event is printed exactly once and
\* in the order of acceptance: what has been printed, what the display
\* thread holds and what is queued are together the queued events in order,
\* those that cannot be formatted left out; and every event queued before
\* shutdown is printed: the display thread does not end with an event still
\* queued or in hand.
C32_QueuedEventsPrintedInOrder ==
    mode = "log" =>
        /\ Printable(Queued) = printed \o Printable(InHand) \o Printable(event_queue)
        /\ DisplayEnded => (event_queue = <<>> /\ InHand = <<>>)

\* a pass of the draw loop that gets to stdscr.refresh() and goes on to
\* handle_input
RedrawToRefresh == CursesDraw /\ ctlpc' = "input"

\* C33: in dashboard mode every redraw runs to completion: whatever events
\* are in the visible window, also one without a parsable timestamp or with
\* a payload that is not a mapping, a pass of the draw loop on a terminal
\* that holds the header and the footer can draw the pane and the footer and
\* refresh the screen, so that no bad event freezes the view.
C33_RedrawCompletes ==
    (DrawLoopTurning /\ ~ChromeRaises(term)) => ENABLED RedrawToRefresh

(***************************************************************************)
(* The producers' side: UniversalAgentObserver (send_event and the wrapper *)
(* of observe_function) and the hooks' send_event, run by one thread.      *)
(***************************************************************************)
\* how many calls of send_event a run makes at most
MaxSends == 4

\* what a caller hands send_event as payload: a mapping json can encode, a
\* mapping json cannot encode, a value that is no mapping
Payloads == {"mapping", "unserializable", NotAMapping}

\* what the POST meets: a success status, an error status (urllib's HTTPError,
\* httpx's raise_for_status), no server
NetOutcomes == {"2xx", "http_error", "unreachable"}

\* the exceptions of the model, and those among them that derive from Exception
Raisable == {"TypeError", "HTTPError", "URLError", "ValueError", "SystemExit"}
ExceptionClasses == Raisable \ {"SystemExit"}

\* "except Exception" catches it
Caught(exc) == exc \in ExceptionClasses

\* what a wrapped function does when it is run: it returns a value or raises
FuncResults == {None, "r"}
FuncOutcomes ==
    [kind : {"return"}, value : FuncResults]
        \cup [kind : {"raise"}, value : {"ValueError", "SystemExit"}]

\* UniversalAgentObserver.send_event, the body of its try: the exception it
\* raises, or None. {**payload, ...} needs a mapping and json.dumps one it can
\* encode; urlopen raises on an error status and on no connection.
ObserverSendRaises(payload, net) ==
    CASE payload = NotAMapping -> "TypeError"
      [] payload = "unserializable" -> "TypeError"
      [] net = "http_error" -> "HTTPError"
      [] net = "unreachable" -> "URLError"
      [] OTHER -> None

\* the hooks' send_event, the body of its try: client.post encodes the event
\* (json=event) and raise_for_status raises on an error status
HookSendRaises(payload, net) ==
    CASE payload = "unserializable" -> "TypeError"
      [] net = "http_error" -> "HTTPError"
      [] net = "unreachable" -> "URLError"
      [] OTHER -> None

\* a counter that counts every send, the failed ones included
CountEverySend(n, ok) == n + 1

\* self.event_count += 1 stands inside the with block, after urlopen returned
CountAfter(n, ok) == IF ok THEN n + 1 ELSE n

\* what send_event hands its caller: True from inside the with block, False
\* from the except clause, and the exception itself where the clause does not
\* catch it
Returned(exc) ==
    IF exc = None THEN TRUE ELSE IF Caught(exc) THEN FALSE ELSE "raised"

\* One call of UniversalAgentObserver.send_event. The record kept of it:
\* posted, the request reached urlopen; accepted, the server answered it with a
\* success status; event_number, the number the event was built with.
SendEvent(event_type, payload, net) ==
    LET exc == ObserverSendRaises(payload, net)
        posted == payload = "mapping"
        accepted == posted /\ net = "2xx"
    IN  /\ event_count' = CountAfter(event_count, exc = None)
        /\ sends' = Append(sends, [via |-> "observer",
                                   event_type |-> event_type,
                                   event_number |-> IF payload = NotAMapping THEN Absent
                                                    ELSE event_count,
                                   posted |-> posted,
                                   accepted |-> accepted,
                                   returned |-> Returned(exc)])

\* what the producers' side never touches: the viewers
ViewerVars ==
    <<mode, args, filter_app, filter_type, shapes, maxProduced, term, line,
      ctlVars, uiVars, dispVars, aggVars, netpc, cur, serverVars, pollVars>>

\* the program calls send_event itself, or through observe_custom and the like
DirectSend ==
    /\ wpc = "idle"
    /\ Len(sends) < MaxSends
    /\ \E event_type \in {"custom"}, payload \in Payloads, net \in NetOutcomes :
         SendEvent(event_type, payload, net)
    /\ UNCHANGED <<wpc, call, result, ViewerVars>>

\* a hook calls its send_event: no counter, no event number
HookSend ==
    /\ wpc = "idle"
    /\ Len(sends) < MaxSends
    /\ \E payload \in Payloads, net \in NetOutcomes :
         LET exc == HookSendRaises(payload, net)
         IN  sends' = Append(sends, [via |-> "hook",
                                     event_type |-> "hook",
                                     event_number |-> Absent,
                                     posted |-> payload # "unserializable",
                                     accepted |-> payload # "unserializable" /\ net = "2xx",
                                     returned |-> Returned(exc)])
    /\ UNCHANGED <<event_count, wpc, call, result, ViewerVars>>

\* wrapper, up to the call of the function: func.__name__, the clock, and
\* send_event("function_call_start") with str(args)[:500] and
\* str(kwargs)[:500] in its payload. str is evaluated in the wrapper, outside
\* every try: an argument whose __repr__ raises ends the call there.
ObserveStart ==
    /\ wpc = "idle"
    /\ Len(sends) + 2 <= MaxSends
    /\ \E outcome \in FuncOutcomes, reprRaises \in BOOLEAN, net \in NetOutcomes :
         /\ call' = [outcome |-> outcome, base |-> Len(sends), ran |-> FALSE]
         /\ IF reprRaises
            THEN /\ wpc' = "done"
                 /\ result' = [kind |-> "raise", value |-> "TypeError"]
                 /\ UNCHANGED <<event_count, sends>>
            ELSE /\ SendEvent("function_call_start", "mapping", net)
                 /\ wpc' = "run"
                 /\ result' = NoOutcome
    /\ UNCHANGED ViewerVars

\* result = func(*args, **kwargs)
ObserveRun ==
    /\ wpc = "run"
    /\ call' = [call EXCEPT !.ran = TRUE]
    /\ wpc' = "ran"
    /\ UNCHANGED <<event_count, sends, result, ViewerVars>>

\* the rest of the try and its except clause: function_call_complete and
\* return result; under "except Exception", function_call_error and raise; an
\* exception the clause does not catch leaves the wrapper as it is
ObserveFinish ==
    /\ wpc = "ran"
    /\ \E net \in NetOutcomes :
         CASE call.outcome.kind = "return" ->
                SendEvent("function_call_complete", "mapping", net)
           [] call.outcome.kind = "raise" /\ Caught(call.outcome.value) ->
                SendEvent("function_call_error", "mapping", net)
           [] OTHER -> UNCHANGED <<event_count, sends>>
    /\ result' = call.outcome
    /\ wpc' = "done"
    /\ UNCHANGED <<call, ViewerVars>>

\* the caller goes on
ObserveReturn ==
    /\ wpc = "done"
    /\ wpc' = "idle"
    /\ call' = NoCall
    /\ result' = NoOutcome
    /\ UNCHANGED <<event_count, sends, ViewerVars>>

NextObserver ==
    DirectSend \/ HookSend \/ ObserveStart \/ ObserveRun \/ ObserveFinish \/ ObserveReturn

\* a process that produces events and views none
InitObserver ==
    /\ mode = "producer"
    /\ args = [filter_app |-> None, filter_type |-> None]
    /\ shapes = {}
    /\ maxProduced = 0
    /\ term = DefaultTerm
    /\ Start

ObserverSpec == InitObserver /\ [][NextObserver]_vars

(***************************************************************************)
(* The wrapper and the counter: C34 and C35.                               *)
(***************************************************************************)
\* the calls of send_event the wrapper has made for the call it is serving
CallSends == SubSeq(sends, call.base + 1, Len(sends))

\* the event that reports how the function ended
ClosingEvent(outcome) ==
    IF outcome.kind = "return" THEN "function_call_complete" ELSE "function_call_error"

\* C34: a call of a function wrapped by observe_function sends
\* function_call_start before the function runs and nothing else until it has
\* run; when the wrapper hands control back, the function has run, exactly one
\* more event has been sent, function_call_complete if the function returned
\* and function_call_error if it raised, and the caller gets what the function
\* gave: its result, or its exception. No outcome of a send changes that.
C34_WrapperOrderedAndTransparent ==
    /\ wpc \in {"run", "ran"} =>
         /\ Len(CallSends) = 1
         /\ CallSends[1].event_type = "function_call_start"
    /\ wpc = "done" =>
         /\ call.ran
         /\ Len(CallSends) = 2
         /\ CallSends[1].event_type = "function_call_start"
         /\ CallSends[2].event_type = ClosingEvent(call.outcome)
         /\ result = call.outcome

ObserverSends == SelectSeq(sends, LAMBDA s : s.via = "observer")
Succeeded(seq) == SelectSeq(seq, LAMBDA s : s.accepted)

\* C35: every call of send_event returns True or False and raises nothing,
\* True exactly when the server accepted the event; event_count is the number
\* of the observer's sends that succeeded so far; the event_number of each
\* event posted is the number of successful sends before it, and the numbers
\* never decrease along the sends.
C35_SendEventCountsSuccesses ==
    /\ \A i \in DOMAIN sends :
         /\ sends[i].returned \in BOOLEAN
         /\ sends[i].returned = TRUE <=> sends[i].accepted
    /\ event_count = Len(Succeeded(ObserverSends))
    /\ \A i \in DOMAIN ObserverSends :
         ObserverSends[i].posted =>
             ObserverSends[i].event_number
                 = Len(Succeeded(SubSeq(ObserverSends, 1, i - 1)))
    /\ \A i, j \in DOMAIN ObserverSends :
         (i < j /\ ObserverSends[i].posted /\ ObserverSends[j].posted) =>
             ObserverSends[i].event_number <= ObserverSends[j].event_number

\* a send that failed between two that succeeded, the later one by the wrapper
C35_Witness ==
    \E i, j, k \in DOMAIN ObserverSends :
        /\ i < j /\ j < k
        /\ ObserverSends[i].accepted
        /\ ~ObserverSends[j].accepted /\ ObserverSends[j].returned = FALSE
        /\ ObserverSends[k].accepted /\ ObserverSends[k].event_type = "function_call_complete"
        /\ \E h \in DOMAIN sends : sends[h].via = "hook" /\ sends[h].returned = FALSE

====
